---- MODULE Spec2Model ----
(***************************************************************************)
(* DuplicateDetective.py: scan directory trees in a worker pool, group the *)
(* file records by size, hash every candidate, group by hash, and rank the *)
(* duplicate groups by wasted space.                                       *)
(*                                                                         *)
(* A Python dict is modelled as a sequence of entries in insertion order   *)
(* (the order dict.items() iterates in), a list as a sequence.  The mtime  *)
(* field of a file record is never read after scan_folder and is left out, *)
(* as are the duplicates list (written, never read) and the report text.   *)
(***************************************************************************)
EXTENDS Integers, Sequences, FiniteSets, TLC

\* ------------------------------------------------------------------ bounds
MaxFolders == 3      \* longest list of folders handed to the scan
MaxProcs == 4        \* largest worker limit (num_processes, mp.cpu_count())
MaxFaults == 1       \* most faults (stat, read, walk) in one file tree
MaxGroups == 3       \* most duplicate groups handed to the aggregation alone
MaxCount == 3        \* most copies in one of those groups
MaxSize == 2         \* largest file size in one of those groups

\* --------------------------------------------------------------- constants
CHUNK_SIZE == 16777216

\* ------------------------------------------------------------- environment
Roots == {"a", "b"}
\* the files os.walk meets under each root, in the order it yields them
Listing(r) == IF r = "a" THEN <<"a/1", "a/s/2">> ELSE <<"b/1">>
Paths == {"a/1", "a/s/2", "b/1"}
\* file contents are byte strings; st_size is their length
Contents == {<<1>>, <<2>>, <<1, 1>>}
\* one digest per content, so that xxh64 can tell all contents apart as well as
\* map two of them to one digest
Digests == {"h1", "h2", "h3"}
Access == {"ok", "nostat", "noread"}
None == "None"
Unhashed == "unhashed"
NoFault == -1
\* num_processes=None: no worker limit is given; also the value of
\* num_processes while scan_files_parallel is not running
Unset == 0
Pending == <<[path |-> "pending", size |-> -1]>>
NoGroup == [paths |-> <<>>, size |-> 0, count |-> 0, wasted_size |-> 0]

VARIABLES
    fs,            \* path -> [content, access]: the file tree, fixed for a run
    hashFn,        \* content -> the digest xxh64 gave it, Unhashed until the
                   \* content is hashed for the first time
    walkFault,     \* root -> NoFault, or the number of records after which
                   \* the enumeration of that root raises
    base_folders,  \* the list of roots
    num_processes, \* scan_files_parallel's parameter and local: the worker
                   \* limit, Unset when none is passed
    pc,            \* position of the coordinating process
    pool_size,     \* processes= of the scan pool
    folder_chunks, \* the chunks of the chunked branch
    results,       \* pool.map's result list, Pending where not yet computed
    walks,         \* how many times each task of the map has been run
    files,         \* the merged file list
    grouped_by_size,
    sg,            \* index of the size group being hashed
    pending,       \* the files of the group whose hash result has not arrived,
                   \* each with the number of its records still out
    hash_map,
    size_map,
    duplicate_groups_with_size,
    total_duplicate_size,
    duplicate_groups_count,
    most_duplicated_group,
    largest_waste_group,
    sorted_groups

env == <<fs, hashFn, walkFault, base_folders>>
scanv == <<num_processes, pool_size, folder_chunks, results, walks, files>>
hashv == <<grouped_by_size, sg, pending, hash_map, size_map>>
dupv == <<duplicate_groups_with_size, total_duplicate_size, duplicate_groups_count>>
aggv == <<most_duplicated_group, largest_waste_group, sorted_groups>>
vars == <<env, pc, scanv, hashv, dupv, aggv>>

\* ----------------------------------------------------------------- helpers
Min(x, y) == IF x < y THEN x ELSE y
Max(x, y) == IF x > y THEN x ELSE y
Range(s) == {s[i] : i \in 1..Len(s)}

RECURSIVE Flatten(_)
Flatten(ss) == IF ss = <<>> THEN <<>> ELSE Head(ss) \o Flatten(Tail(ss))

SubSeqFrom(s, i, n) == SubSeq(s, i, Min(Len(s), i + n - 1))

\* ------------------------------------------------------------- scan_folder
\* one file of the walk: os.stat raises OSError -> continue, else append
StatRecord(p) ==
    IF fs[p].access = "nostat" THEN <<>>
    ELSE <<[path |-> p, size |-> Len(fs[p].content)]>>

\* variant: the except clause drops what the walk had gathered
scan_folder_m(folder) ==
    IF walkFault[folder] # NoFault THEN <<>>
    ELSE Flatten([i \in 1..Len(Listing(folder)) |-> StatRecord(Listing(folder)[i])])

\* the records appended before the enumeration ends or raises
scan_folder(folder) ==
    LET all == Listing(folder)
        n == IF walkFault[folder] = NoFault THEN Len(all) ELSE walkFault[folder]
    IN  Flatten([i \in 1..n |-> StatRecord(all[i])])

\* ----------------------------------------------------- scan_files_parallel
\* if num_processes is None: num_processes = mp.cpu_count(), which is whatever
\* the host has
WorkerLimits == IF num_processes = Unset THEN 1..MaxProcs ELSE {num_processes}

ChunkSize(limit) == Max(1, Len(base_folders) \div limit)

FolderChunks(limit) ==
    LET cs == ChunkSize(limit)
        k == (Len(base_folders) + cs - 1) \div cs
    IN  [c \in 1..k |-> SubSeqFrom(base_folders, (c - 1) * cs + 1, cs)]

PoolPerFolder ==
    /\ pc = "start"
    /\ num_processes' \in WorkerLimits
    /\ Len(base_folders) <= num_processes'
    /\ pool_size' = Min(Len(base_folders), num_processes')
    /\ results' = [i \in 1..Len(base_folders) |-> Pending]
    /\ walks' = [i \in 1..Len(base_folders) |-> 0]
    /\ pc' = "scanning"
    /\ UNCHANGED <<env, folder_chunks, files, hashv, dupv, aggv>>

PoolPerChunk ==
    /\ pc = "start"
    /\ num_processes' \in WorkerLimits
    /\ Len(base_folders) > num_processes'
    /\ folder_chunks' = FolderChunks(num_processes')
    /\ pool_size' = Len(FolderChunks(num_processes'))
    /\ pc' = "chunked"
    /\ UNCHANGED <<env, results, walks, files, hashv, dupv, aggv>>

\* pool.map pickles its function; a lambda cannot be pickled and map raises
MapLambdaRaises ==
    /\ pc = "chunked"
    /\ pc' = "crashed"
    /\ UNCHANGED <<env, scanv, hashv, dupv, aggv>>

ScanFolderTask(i) ==
    /\ pc = "scanning"
    /\ results[i] = Pending
    /\ results' = [results EXCEPT ![i] = scan_folder(base_folders[i])]
    /\ walks' = [walks EXCEPT ![i] = @ + 1]
    /\ UNCHANGED <<env, pc, num_processes, pool_size, folder_chunks, files>>
    /\ UNCHANGED <<hashv, dupv, aggv>>

ReturnFiles ==
    /\ pc = "scanning"
    /\ \A i \in 1..Len(results) : results[i] # Pending
    /\ files' = Flatten(results)
    /\ pc' = "scanned"
    /\ UNCHANGED <<env, num_processes, pool_size, folder_chunks, results, walks>>
    /\ UNCHANGED <<hashv, dupv, aggv>>

\* ----------------------------------------------------------- group_by_size
\* the keys of a defaultdict in insertion order: first occurrences
RECURSIVE FirstKeys(_)
FirstKeys(ks) ==
    IF ks = <<>> THEN <<>>
    ELSE LET init == FirstKeys(SubSeq(ks, 1, Len(ks) - 1))
             last == ks[Len(ks)]
         IN  IF last \in Range(init) THEN init ELSE Append(init, last)

\* variant: every bucket receives every file
SizeBucket_m(fl, s) == fl

SizeBucket(fl, s) == SelectSeq(fl, LAMBDA f : f.size = s)

group_by_size(fl) ==
    LET keys == FirstKeys([i \in 1..Len(fl) |-> fl[i].size])
        size_map0 == [k \in 1..Len(keys) |->
                        [size |-> keys[k], group |-> SizeBucket(fl, keys[k])]]
    IN  SelectSeq(size_map0, LAMBDA e : Len(e.group) > 1)

\* find_duplicates has the list scan_files_parallel returned, whose own locals
\* are gone with its frame
GroupBySize ==
    /\ pc = "scanned"
    /\ num_processes' = Unset
    /\ pool_size' = 0
    /\ folder_chunks' = <<>>
    /\ results' = <<>>
    /\ walks' = <<>>
    /\ grouped_by_size' = group_by_size(files)
    /\ duplicate_groups_with_size' = <<>>
    /\ total_duplicate_size' = 0
    /\ duplicate_groups_count' = 0
    /\ sg' = 0
    /\ pc' = "loop"
    /\ UNCHANGED <<env, files, pending, hash_map, size_map, aggv>>

\* ------------------------------------------------------- compute_fast_hash
\* f.read(CHUNK_SIZE) until the empty chunk
RECURSIVE ReadChunks(_)
ReadChunks(bytes) ==
    IF bytes = <<>> THEN <<>>
    ELSE <<SubSeq(bytes, 1, Min(Len(bytes), CHUNK_SIZE))>>
         \o ReadChunks(SubSeq(bytes, Min(Len(bytes), CHUNK_SIZE) + 1, Len(bytes)))

\* what xxh64 maps each content to once p has been hashed: a content hashed
\* before keeps its digest, a content hashed for the first time gets any digest
\* (two contents may get the same one), a file that cannot be read adds nothing
xxh64(p) ==
    IF fs[p].access # "ok" THEN {hashFn}
    ELSE LET bytes == Flatten(ReadChunks(fs[p].content))
         IN  IF hashFn[bytes] # Unhashed THEN {hashFn}
             ELSE {[hashFn EXCEPT ![bytes] = d] : d \in Digests}

\* xxh64 is a streaming hash: the digest of the updates is the digest of their
\* concatenation
compute_fast_hash(p, digest) ==
    IF fs[p].access # "ok" THEN None
    ELSE digest[Flatten(ReadChunks(fs[p].content))]

hash_wrapper(file, digest) ==
    [path |-> file.path, size |-> file.size, h |-> compute_fast_hash(file.path, digest)]

\* ----------------------------------------------------------- group_by_hash
HasKey(hm, h) == \E k \in 1..Len(hm) : hm[k].hash = h
KeyIndex(hm, h) == CHOOSE k \in 1..Len(hm) : hm[k].hash = h

\* variant: a bucket other than the newest is restarted instead of extended
AppendPath_m(hm, h, path) ==
    IF HasKey(hm, h)
    THEN [hm EXCEPT ![KeyIndex(hm, h)].paths =
                        IF KeyIndex(hm, h) = Len(hm) THEN Append(@, path) ELSE <<path>>]
    ELSE Append(hm, [hash |-> h, paths |-> <<path>>])

\* hash_map[h].append(path) on a defaultdict(list)
AppendPath(hm, h, path) ==
    IF HasKey(hm, h)
    THEN [hm EXCEPT ![KeyIndex(hm, h)].paths = Append(@, path)]
    ELSE Append(hm, [hash |-> h, paths |-> <<path>>])

\* size_map[h] = size
StoreSize(sm, h, size) ==
    [x \in DOMAIN sm \cup {h} |-> IF x = h THEN size ELSE sm[x]]

\* variant: the result is used without the test
Truthy_m(h) == TRUE

\* if h: (a hex digest is a non-empty string, None is falsy)
Truthy(h) == h # None

\* the tasks handed to imap_unordered: one per record of the group; records of
\* the same file are alike, so they are counted
Outstanding(group) ==
    [f \in Range(group) |-> Cardinality({i \in 1..Len(group) : group[i] = f})]

\* one of file's results has been consumed
Arrived(out, file) ==
    [f \in (IF out[file] = 1 THEN DOMAIN out \ {file} ELSE DOMAIN out) |->
        IF f = file THEN out[f] - 1 ELSE out[f]]

BeginSizeGroup ==
    /\ pc = "loop"
    /\ sg < Len(grouped_by_size)
    /\ sg' = sg + 1
    /\ pending' = Outstanding(grouped_by_size[sg + 1].group)
    /\ hash_map' = <<>>
    /\ size_map' = <<>>
    /\ pc' = "hashing"
    /\ UNCHANGED <<env, scanv, grouped_by_size, dupv, aggv>>

\* one result of imap_unordered reaches the loop, in completion order
HashArrive(file) ==
    /\ pc = "hashing"
    /\ file \in DOMAIN pending
    /\ hashFn' \in xxh64(file.path)
    /\ LET r == hash_wrapper(file, hashFn')
       IN  IF Truthy(r.h)
           THEN /\ hash_map' = AppendPath(hash_map, r.h, r.path)
                /\ size_map' = StoreSize(size_map, r.h, r.size)
           ELSE UNCHANGED <<hash_map, size_map>>
    /\ pending' = Arrived(pending, file)
    /\ UNCHANGED <<fs, walkFault, base_folders>>
    /\ UNCHANGED <<pc, scanv, grouped_by_size, sg, dupv, aggv>>

\* variant: the singleton filter is off by one
fast_hash_groups_m(hm) == SelectSeq(hm, LAMBDA e : Len(e.paths) > 2)

fast_hash_groups(hm) == SelectSeq(hm, LAMBDA e : Len(e.paths) > 1)

\* variant: every copy is counted as waste
wasted_m(paths, size) == Len(paths) * size

wasted(paths, size) == (Len(paths) - 1) * size

GroupRecord(e, sm) ==
    [paths |-> e.paths, size |-> sm[e.hash], count |-> Len(e.paths),
     wasted_size |-> wasted(e.paths, sm[e.hash])]

RECURSIVE SumWasted(_)
SumWasted(gs) ==
    IF gs = <<>> THEN 0 ELSE Head(gs).wasted_size + SumWasted(Tail(gs))

\* the body of the loop over grouped_by_size, after group_by_hash returned
EndSizeGroup ==
    /\ pc = "hashing"
    /\ DOMAIN pending = {}
    /\ LET fhg == fast_hash_groups(hash_map)
           new == [k \in 1..Len(fhg) |-> GroupRecord(fhg[k], size_map)]
       IN  /\ duplicate_groups_with_size' = duplicate_groups_with_size \o new
           /\ total_duplicate_size' = total_duplicate_size + SumWasted(new)
           /\ duplicate_groups_count' = duplicate_groups_count + Len(new)
    /\ pc' = "loop"
    /\ UNCHANGED <<env, scanv, hashv, aggv>>

\* -------------------------------------------------------------- aggregation
\* max(seq, key=...) returns the first element with the largest key
\* variant: the last element is taken
FirstMaxIndex_m(ks) == Len(ks)

RECURSIVE FirstMaxIndex(_)
FirstMaxIndex(ks) ==
    IF Len(ks) = 1 THEN 1
    ELSE LET m == FirstMaxIndex(SubSeq(ks, 1, Len(ks) - 1))
         IN  IF ks[Len(ks)] > ks[m] THEN Len(ks) ELSE m

\* sorted(seq, key=..., reverse=True): stable, descending
RECURSIVE InsertDesc(_, _)
InsertDesc(sorted, g) ==
    IF sorted = <<>> THEN <<g>>
    ELSE IF Head(sorted).wasted_size >= g.wasted_size
         THEN <<Head(sorted)>> \o InsertDesc(Tail(sorted), g)
         ELSE <<g>> \o sorted

RECURSIVE SortedDesc(_)
SortedDesc(gs) ==
    IF gs = <<>> THEN <<>>
    ELSE InsertDesc(SortedDesc(SubSeq(gs, 1, Len(gs) - 1)), gs[Len(gs)])

Counts(gs) == [k \in 1..Len(gs) |-> gs[k].count]
Wastes(gs) == [k \in 1..Len(gs) |-> gs[k].wasted_size]

MostDuplicated(gs) == IF gs # <<>> THEN gs[FirstMaxIndex(Counts(gs))] ELSE NoGroup
LargestWaste(gs) == IF gs # <<>> THEN gs[FirstMaxIndex(Wastes(gs))] ELSE NoGroup

Aggregate ==
    /\ pc = "loop"
    /\ sg = Len(grouped_by_size)
    /\ most_duplicated_group' = MostDuplicated(duplicate_groups_with_size)
    /\ largest_waste_group' = LargestWaste(duplicate_groups_with_size)
    /\ sorted_groups' = SortedDesc(duplicate_groups_with_size)
    /\ pc' = "done"
    /\ UNCHANGED <<env, scanv, hashv, dupv>>

\* ------------------------------------------------------------ specification
FolderLists == UNION {[1..n -> Roots] : n \in 1..MaxFolders}

FaultCount(f, w) ==
    Cardinality({p \in Paths : f[p].access # "ok"})
    + Cardinality({r \in Roots : w[r] # NoFault})

WalkFaults ==
    {w \in [Roots -> {NoFault, 0, 1}] : \A r \in Roots : w[r] < Len(Listing(r))}

InitTree ==
    /\ fs \in [Paths -> [content : Contents, access : Access]]
    /\ walkFault \in WalkFaults
    /\ FaultCount(fs, walkFault) <= MaxFaults
    /\ base_folders \in FolderLists

InitRun ==
    /\ pc = "start"
    /\ pool_size = 0
    /\ folder_chunks = <<>>
    /\ results = <<>>
    /\ walks = <<>>
    /\ files = <<>>
    /\ grouped_by_size = <<>>
    /\ sg = 0
    /\ pending = <<>>
    /\ hash_map = <<>>
    /\ size_map = <<>>
    /\ duplicate_groups_with_size = <<>>
    /\ total_duplicate_size = 0
    /\ duplicate_groups_count = 0
    /\ most_duplicated_group = NoGroup
    /\ largest_waste_group = NoGroup
    /\ sorted_groups = <<>>

\* find_duplicates(folders, ...), which calls scan_files_parallel(folders)
Init ==
    /\ InitTree
    /\ hashFn = [c \in Contents |-> Unhashed]
    /\ num_processes = Unset
    /\ InitRun

NextScan ==
    \/ PoolPerFolder
    \/ PoolPerChunk
    \/ MapLambdaRaises
    \/ \E i \in 1..Len(results) : ScanFolderTask(i)
    \/ ReturnFiles

Next ==
    \/ NextScan
    \/ GroupBySize
    \/ BeginSizeGroup
    \/ \E file \in DOMAIN pending : HashArrive(file)
    \/ EndSizeGroup
    \/ Aggregate

Spec == Init /\ [][Next]_vars

\* scan_files_parallel called on its own, with a worker limit or without
InitScan ==
    /\ InitTree
    /\ hashFn = [c \in Contents |-> Unhashed]
    /\ num_processes \in {Unset} \cup 1..MaxProcs
    /\ InitRun

SpecScan == InitScan /\ [][NextScan]_vars

\* the aggregation alone, on every list of at most MaxGroups duplicate groups:
\* it reads duplicate_groups_with_size and nothing else
GroupKinds == (2..MaxCount) \X (1..MaxSize)

AggGroup(k, kind) ==
    [paths |-> [j \in 1..kind[1] |-> "g" \o ToString(k) \o "/" \o ToString(j)],
     size |-> kind[2], count |-> kind[1],
     wasted_size |-> wasted([j \in 1..kind[1] |-> j], kind[2])]

AggInputs ==
    UNION {{[k \in 1..n |-> AggGroup(k, kinds[k])] : kinds \in [1..n -> GroupKinds]}
           : n \in 0..MaxGroups}

InitAgg ==
    /\ fs = [p \in Paths |-> [content |-> <<1>>, access |-> "ok"]]
    /\ walkFault = [r \in Roots |-> NoFault]
    /\ hashFn = [c \in Contents |-> Unhashed]
    /\ base_folders = <<"a">>
    /\ num_processes = Unset
    /\ pc = "loop"
    /\ pool_size = 0
    /\ folder_chunks = <<>>
    /\ results = <<>>
    /\ walks = <<>>
    /\ files = <<>>
    /\ grouped_by_size = <<>>
    /\ sg = 0
    /\ pending = <<>>
    /\ hash_map = <<>>
    /\ size_map = <<>>
    /\ duplicate_groups_with_size \in AggInputs
    /\ total_duplicate_size = SumWasted(duplicate_groups_with_size)
    /\ duplicate_groups_count = Len(duplicate_groups_with_size)
    /\ most_duplicated_group = NoGroup
    /\ largest_waste_group = NoGroup
    /\ sorted_groups = <<>>

NextAgg == Aggregate

SpecAgg == InitAgg /\ [][NextAgg]_vars

\* ==================================================================== claims
\* ground truth, from the file tree alone
RootOf(p) == CHOOSE r \in Roots : p \in Range(Listing(r))
Pos(p) == CHOOSE i \in 1..Len(Listing(RootOf(p))) : Listing(RootOf(p))[i] = p
SizeOf(p) == Len(fs[p].content)
Digest(p) == hashFn[fs[p].content]
UnderRoots == {p \in Paths : RootOf(p) \in Range(base_folders)}
Groups == duplicate_groups_with_size
Members(g) == Range(g.paths)
GroupsWith(S) == {k \in 1..Len(Groups) : S \subseteq Members(Groups[k])}
Recorded(p) == \E i \in 1..Len(files) : files[i].path = p
Hashed(p) == Recorded(p) /\ fs[p].access = "ok"

\* how often the scan meets p: once per occurrence of its root in the list,
\* if stat succeeds and the walk gets that far
Reached(p) ==
    /\ fs[p].access # "nostat"
    /\ walkFault[RootOf(p)] = NoFault \/ Pos(p) <= walkFault[RootOf(p)]
Mult(p) ==
    IF Reached(p)
    THEN Cardinality({i \in 1..Len(base_folders) : base_folders[i] = RootOf(p)})
    ELSE 0
RECURSIVE SumMult(_)
SumMult(S) ==
    IF S = {} THEN 0
    ELSE LET p == CHOOSE x \in S : TRUE IN Mult(p) + SumMult(S \ {p})
Class(s, h) ==
    {p \in Paths : Mult(p) > 0 /\ fs[p].access = "ok" /\ SizeOf(p) = s /\ Digest(p) = h}
Sizes == {Len(c) : c \in Contents}
ExpectedGroups ==
    {S \in {Class(s, h) : s \in Sizes, h \in Digests} : SumMult(S) >= 2}

\* C1 (as stated): after find_duplicates completes, any two files under the
\* scanned roots with identical size and content are together in exactly one
\* reported group.
C1_AsStated ==
    pc = "done" =>
        \A p, q \in UnderRoots :
            (p # q /\ fs[p].content = fs[q].content)
                => Cardinality(GroupsWith({p, q})) = 1

\* C1 (amended): after find_duplicates completes, any two files that the scan
\* recorded and whose hashing succeeded, with identical size and content, are
\* together in exactly one reported group.
C1_Amended ==
    pc = "done" =>
        \A p, q \in UnderRoots :
            (p # q /\ Hashed(p) /\ Hashed(q) /\ fs[p].content = fs[q].content)
                => Cardinality(GroupsWith({p, q})) = 1

C1_Witness ==
    /\ pc = "done"
    /\ \E p, q, u \in UnderRoots :
        /\ p # q /\ Hashed(p) /\ Hashed(q)
        /\ fs[p].content = fs[q].content /\ fs[u].content = fs[p].content
        /\ fs[u].access = "noread"
        /\ Cardinality(GroupsWith({p, q})) = 1
        /\ GroupsWith({u}) = {}

\* C2 (as stated): every path of a reported group has content byte-identical to
\* every other path of the group, whatever the hash function.
C2_AsStated ==
    pc = "done" =>
        \A k \in 1..Len(Groups) : \A p, q \in Members(Groups[k]) :
            fs[p].content = fs[q].content

\* C2 (amended): every path of a reported group has the same size and the same
\* digest as every other path of the group, and so the same content whenever the
\* hash function maps no two different contents of that size to one digest.
C2_Amended ==
    pc = "done" =>
        \A k \in 1..Len(Groups) : \A p, q \in Members(Groups[k]) :
            /\ SizeOf(p) = SizeOf(q)
            /\ Digest(p) = Digest(q)
            /\ (\A c, d \in Contents :
                    (/\ Len(c) = SizeOf(p) /\ Len(d) = SizeOf(p)
                     /\ hashFn[c] # Unhashed /\ hashFn[c] = hashFn[d])
                        => c = d)
               => fs[p].content = fs[q].content

C2_Witness ==
    /\ pc = "done"
    /\ \E k \in 1..Len(Groups) : \E p, q \in Members(Groups[k]) :
        /\ p # q
        /\ fs[p].content = fs[q].content
        /\ \E c \in Contents : Len(c) # SizeOf(p) /\ hashFn[c] = Digest(p)

\* C3: when the roots outnumber the worker limit they are cut into exactly
\* num_processes contiguous chunks and the pool has one worker per chunk, so the
\* scan never has more workers than the limit.
C3_AsStated ==
    pc \in {"chunked", "crashed"} =>
        /\ Flatten(folder_chunks) = base_folders
        /\ Len(folder_chunks) = num_processes
        /\ pool_size = Len(folder_chunks)
        /\ pool_size <= num_processes

\* C4: for every non-empty list of roots and every worker limit >= 1, in both
\* branches, the scan returns, having walked each root exactly once, the
\* concatenation of the per-root scan_folder outputs.
C4_AsStated ==
    /\ pc # "crashed"
    /\ pc = "scanned" =>
        /\ \A i \in 1..Len(base_folders) : walks[i] = 1
        /\ files = Flatten([i \in 1..Len(base_folders) |-> scan_folder(base_folders[i])])

RECURSIVE SumOver(_, _)
SumOver(f, n) == IF n = 0 THEN 0 ELSE f[n] + SumOver(f, n - 1)

\* C5: every reported group has count = number of its paths and
\* wasted_size = (count - 1) * size; the total wasted size is the sum of the
\* groups' wasted sizes and the group count is the number of groups.
C5_Wasted ==
    /\ \A k \in 1..Len(Groups) :
        /\ Groups[k].count = Len(Groups[k].paths)
        /\ Groups[k].wasted_size = (Groups[k].count - 1) * Groups[k].size
    /\ total_duplicate_size
         = SumOver([k \in 1..Len(Groups) |-> (Groups[k].count - 1) * Groups[k].size],
                   Len(Groups))
    /\ duplicate_groups_count = Len(Groups)

C5_Witness ==
    /\ pc = "done"
    /\ Len(Groups) >= 2
    /\ Groups[1].wasted_size # Groups[2].wasted_size
    /\ total_duplicate_size = Groups[1].wasted_size + Groups[2].wasted_size

\* C6: with at least one group, most_duplicated_group is a group whose count is
\* the largest of all groups and largest_waste_group is a group whose
\* wasted_size is the largest of all groups; with no group both are absent.
C6_Selection ==
    pc = "done" =>
        IF Groups = <<>>
        THEN most_duplicated_group = NoGroup /\ largest_waste_group = NoGroup
        ELSE /\ most_duplicated_group \in Range(Groups)
             /\ largest_waste_group \in Range(Groups)
             /\ \A k \in 1..Len(Groups) :
                 /\ most_duplicated_group.count >= Groups[k].count
                 /\ largest_waste_group.wasted_size >= Groups[k].wasted_size

C6_Witness ==
    /\ pc = "done"
    /\ Len(Groups) >= 3
    /\ most_duplicated_group # largest_waste_group
    /\ most_duplicated_group # Groups[Len(Groups)]
    /\ largest_waste_group # Groups[1]
    /\ \E k \in 1..Len(Groups) : Groups[k].count < most_duplicated_group.count
    /\ \E k \in 1..Len(Groups) : Groups[k].wasted_size < largest_waste_group.wasted_size

\* C7: for a fixed file tree the set of reported groups, each taken as a set of
\* paths, is the same whatever the order in which the hash results arrive and
\* the scan results are merged: it is the set fixed by the tree alone, and no
\* set is reported twice.
C7_OrderFree ==
    pc = "done" =>
        LET expected == ExpectedGroups
        IN  /\ {Members(Groups[k]) : k \in 1..Len(Groups)} = expected
            /\ Len(Groups) = Cardinality(expected)

FirstAt(p) == CHOOSE i \in 1..Len(files) : files[i].path = p /\ \A j \in 1..(i - 1) : files[j].path # p
C7_Witness ==
    /\ pc = "done"
    /\ \E k \in 1..Len(Groups) :
        /\ Groups[k].paths[1] # Groups[k].paths[2]
        /\ FirstAt(Groups[k].paths[1]) > FirstAt(Groups[k].paths[2])

\* C8: a file whose hashing fails is in no group, and the failure stops neither
\* the hashing of its size group nor the run: the readable files of that size
\* that share a digest are still reported, as one group of exactly those copies.
C8_HashFailure ==
    /\ (pc = "hashing" /\ DOMAIN pending = {}) => ENABLED EndSizeGroup
    /\ pc = "done" =>
        \A u \in Paths :
            (Recorded(u) /\ fs[u].access = "noread") =>
                /\ GroupsWith({u}) = {}
                /\ \A h \in Digests :
                    LET copies == Class(SizeOf(u), h)
                    IN  SumMult(copies) >= 2 =>
                            \E k \in 1..Len(Groups) :
                                /\ Members(Groups[k]) = copies
                                /\ Groups[k].count = SumMult(copies)

C8_Witness ==
    /\ pc = "done"
    /\ \E u, p, q \in Paths :
        /\ Recorded(u) /\ fs[u].access = "noread"
        /\ p # q /\ SizeOf(p) = SizeOf(u)
        /\ \E k \in 1..Len(Groups) :
            Members(Groups[k]) = {p, q} /\ Groups[k].count = 2

\* C9: a file whose size no other file under the scanned roots has is in no
\* reported group, for every list of roots.
C9_AsStated ==
    pc = "done" =>
        \A p \in UnderRoots :
            (\A q \in UnderRoots \ {p} : SizeOf(q) # SizeOf(p))
                => GroupsWith({p}) = {}

\* C10 (as stated): a root whose enumeration raises contributes no record, and
\* the scan of the other roots goes on to its normal end.
C10_AsStated ==
    pc = "scanned" =>
        \A i \in 1..Len(base_folders) :
            walkFault[base_folders[i]] # NoFault => results[i] = <<>>

\* the records of the first n files met under r
Appended(r, n) ==
    LET reached == {i \in 1..n : fs[Listing(r)[i]].access # "nostat"}
    IN  [path : {Listing(r)[i] : i \in reached}, size : Sizes]
            \cap {[path |-> p, size |-> SizeOf(p)] : p \in Paths}

\* C10 (amended): a root whose enumeration raises contributes exactly the
\* records appended before the exception (none when it is raised before the
\* first), and the scan of the other roots goes on to its normal end: each of
\* them contributes all its records and the results are merged in list order.
C10_Amended ==
    /\ (pc = "scanning" /\ \A i \in 1..Len(results) : results[i] # Pending)
            => ENABLED ReturnFiles
    /\ pc \in {"scanning", "scanned"} =>
        \A i \in 1..Len(base_folders) :
            results[i] # Pending =>
                LET r == base_folders[i]
                    n == IF walkFault[r] = NoFault THEN Len(Listing(r)) ELSE walkFault[r]
                IN  /\ Range(results[i]) = Appended(r, n)
                    /\ Len(results[i]) = Cardinality(Appended(r, n))
    /\ pc = "scanned" => files = Flatten(results)

C10_Witness ==
    /\ pc = "scanned"
    /\ \E i, j \in 1..Len(base_folders) :
        /\ walkFault[base_folders[i]] # NoFault
        /\ results[i] # <<>>
        /\ walkFault[base_folders[j]] = NoFault
        /\ results[j] # <<>>

====
